---- MODULE Spec2Model ----
(***************************************************************************)
(* Model of aioaseko.mobile.MobileAccount: the token pair of one account,  *)
(* the request pipeline _request and the four coroutines login, logout,    *)
(* refresh and get_units, run as asyncio tasks on one event loop.  A task  *)
(* runs without interruption between two awaits; the awaits that suspend   *)
(* are session.request(...) and resp.json().                               *)
(***************************************************************************)
EXTENDS Integers, Sequences, FiniteSets, TLC

\* ------------------------------------------------------------------ bounds
MaxTime == 2            \* the clock runs over 0..MaxTime
MaxExp == 1             \* exp claims of the access tokens: 1..MaxExp
NumRefreshTokens == 2   \* distinct refresh tokens the server hands out
MaxItems == 2           \* length of the items list of a units response

\* ------------------------------------------------------------- the values
None == "None"

Tasks == {"t1", "t2"}

\* Access tokens are strings.  Jwt(e) is a well-formed JWT whose payload is
\* {"exp": e}; JwtNoExp is a well-formed JWT whose payload has no exp;
\* Malformed is a string jwt.decode rejects.
Jwt(e) == "jwt.exp" \o ToString(e)
JwtNoExp == "jwt.noexp"
Malformed == "not-a-jwt"
ExpiringTokens == {Jwt(e) : e \in 1..MaxExp}
AccessTokens == ExpiringTokens \cup {JwtNoExp, Malformed}

RefreshToken(k) == "refresh" \o ToString(k)
RefreshTokens == {RefreshToken(k) : k \in 1..NumRefreshTokens}

\* The accounts of the model: built from tokens alone (no credentials) or
\* with a username and a password.
Credentials == {<<None, None>>, <<"alice", "secret">>}

\* Status codes the server answers with.
Statuses == {200, 401, 404, 500}

\* JSON bodies of a successful login / refresh response.
TokenBodies == [accessToken : ExpiringTokens, refreshToken : RefreshTokens]
NoBody == [accessToken |-> None, refreshToken |-> None]

\* ------------------------------------------------------------ get_units
\* The items of a units response.  An item is a JSON object; serialNumber
\* is a decimal string, written as the sequence of its digits.  ItemBare is
\* the item of the specification's example (no name, no notes), ItemFull
\* has all the keys.
ItemBare ==
    [serialNumber |-> <<1, 2, 3>>, type |-> "ASIN AQUA", timezone |-> "UTC",
     isOnline |-> TRUE, dateLastData |-> "2022-01-01", hasError |-> FALSE]
ItemFull ==
    [serialNumber |-> <<7>>, type |-> "ASIN Pool", name |-> "pool",
     notes |-> "garden", timezone |-> "CET", isOnline |-> FALSE,
     dateLastData |-> "2022-01-02", hasError |-> TRUE]
Items == {ItemBare, ItemFull}

SeqsUpTo(S, n) == UNION {[1..k -> S] : k \in 0..n}
ItemLists == SeqsUpTo(Items, MaxItems)

\* int(s) for a decimal string s
RECURSIVE int(_)
int(s) ==
    IF Len(s) = 0 THEN 0
    ELSE 10 * int(SubSeq(s, 1, Len(s) - 1)) + s[Len(s)]

\* item.get(key): the value, None when the key is missing
get_or_empty(item, key) == IF key \in DOMAIN item THEN item[key] ELSE ""

get(item, key) == IF key \in DOMAIN item THEN item[key] ELSE None

\* Unit(self, int(item["serialNumber"]), item["type"], item.get("name"),
\*      item.get("notes"), item["timezone"], item["isOnline"],
\*      item["dateLastData"], item["hasError"])
Unit(item) ==
    [serial_number |-> int(item.serialNumber),
     type |-> item.type,
     name |-> get(item, "name"),
     notes |-> get(item, "notes"),
     timezone |-> item.timezone,
     online |-> item.isOnline,
     date_last_data |-> item.dateLastData,
     has_error |-> item.hasError]

\* [Unit(...) for item in data["items"]]
units_of(items) == [i \in 1..Len(items) |-> Unit(items[i])]

\* ------------------------------------------------------------- jwt.decode
\* jwt.decode(token, "", ["RS256"], options={"verify_signature": False}):
\* the payload of a well-formed token, DecodeError for anything else.
\* A payload is the set of its <<claim, value>> pairs.
DecodeError == {<<"DecodeError", 0>>}

decode_lenient(tok) ==
    IF \E e \in 1..MaxExp : tok = Jwt(e)
    THEN {<<"sub", 0>>, <<"exp", CHOOSE e \in 1..MaxExp : tok = Jwt(e)>>}
    ELSE {<<"sub", 0>>}

decode(tok) ==
    IF tok = JwtNoExp THEN {<<"sub", 0>>}
    ELSE IF \E e \in 1..MaxExp : tok = Jwt(e)
         THEN {<<"sub", 0>>, <<"exp", CHOOSE e \in 1..MaxExp : tok = Jwt(e)>>}
         ELSE DecodeError

HasExp(payload) == \E p \in payload : p[1] = "exp"
ExpOf(payload) == (CHOOSE p \in payload : p[1] = "exp")[2]

\* _is_access_token_valid: "valid" for True, "invalid" for False, "raised"
\* when jwt.decode raises.
is_access_token_valid_le(tok, time) ==
    IF tok # None
    THEN IF decode(tok) = DecodeError THEN "raised"
         ELSE IF HasExp(decode(tok)) /\ time <= ExpOf(decode(tok))
              THEN "valid" ELSE "invalid"
    ELSE "invalid"

is_access_token_valid(tok, time) ==
    IF tok # None
    THEN IF decode(tok) = DecodeError THEN "raised"
         ELSE IF HasExp(decode(tok)) /\ time < ExpOf(decode(tok))
              THEN "valid" ELSE "invalid"
    ELSE "invalid"

\* ------------------------------------------------------------- _request
\* The guard of the pre-request refresh:
\*   not refresh and not self._is_access_token_valid()
\*               and self._refresh_token is not None
\* chk is the result of the validity check (never "raised" here: the
\* exception leaves _request before the guard is decided).
needs_refresh_only_expired(isRefresh, chk, tok, rtok) ==
    ~isRefresh /\ chk # "valid" /\ tok # None /\ rtok # None

needs_refresh_always(isRefresh, chk, tok, rtok) ==
    ~isRefresh /\ rtok # None

needs_refresh_nested(isRefresh, chk, tok, rtok) ==
    chk # "valid" /\ rtok # None

needs_refresh(isRefresh, chk, tok, rtok) ==
    ~isRefresh /\ chk # "valid" /\ rtok # None

\* headers=None if self._access_token is None
\*         else {"access-token": self.access_token}
\* A dict is the set of its <<key, value>> pairs; None (no dict) is {}.
headers_always(tok) == {<<"access-token", tok>>}

headers(tok) == IF tok = None THEN {} ELSE {<<"access-token", tok>>}

Request(method, path, data, tok) ==
    [method |-> method, path |-> path, data |-> data, headers |-> headers(tok)]

\* What _request does with a received response: raise InvalidAuthCredentials
\* on 401, APIUnavailable when raise_for_status() raises (status >= 400),
\* otherwise return the response ("ok").
status_outcome_no401(status) ==
    IF status >= 400 THEN "APIUnavailable" ELSE "ok"

status_outcome(status) ==
    IF status = 401 THEN "InvalidAuthCredentials"
    ELSE IF status >= 400 THEN "APIUnavailable"
    ELSE "ok"

\* The request bodies of the three POST/GET calls.
login_data(user, pass) ==
    {<<"username", user>>, <<"password", pass>>, <<"firebaseId", "">>}
refresh_data(rtok) == {<<"refreshToken", rtok>>}
NoData == {}

\* ------------------------------------------------------------------ state
VARIABLES
    username,       \* self._username
    password,       \* self._password
    accessToken,    \* self._access_token
    refreshToken,   \* self._refresh_token
    now,            \* time.time()
    tasks,          \* the coroutines running on the account
    delivered,      \* history: the token pair the account was last handed
                    \* (by its constructor or by a login / refresh response)
    stale           \* history: a refresh() has invalidated the access token
                    \* the account held and no pair has been installed since

vars == <<username, password, accessToken, refreshToken, now, tasks,
          delivered, stale>>

\* A task that runs no coroutine.
IdleTask ==
    [op |-> "none", pc |-> "idle", chk |-> "none",
     held |-> "none", rheld |-> FALSE,
     reqs |-> <<>>, exc |-> "none", status |-> 0, body |-> NoBody,
     items |-> <<>>, units |-> <<>>,
     result |-> "none"]

Init ==
    /\ \E c \in Credentials : username = c[1] /\ password = c[2]
    /\ accessToken \in AccessTokens \cup {None}
    /\ refreshToken \in RefreshTokens \cup {None}
    /\ now = 0
    /\ tasks = [t \in Tasks |-> IdleTask]
    /\ delivered = [accessToken |-> accessToken, refreshToken |-> refreshToken]
    /\ stale = FALSE

\* self._access_token = None at the head of refresh()
invalidated_keep(tok) == tok

invalidated(tok) == None

\* The two assignments that end login() and refresh().
new_tokens_access_only(body, rtok) ==
    [accessToken |-> body.accessToken, refreshToken |-> rtok]

new_tokens_keep_refresh(body, rtok) ==
    [accessToken |-> body.accessToken,
     refreshToken |-> IF rtok = None THEN body.refreshToken ELSE rtok]

new_tokens(body, rtok) ==
    [accessToken |-> body.accessToken, refreshToken |-> body.refreshToken]

\* What the account holds as access token at time: nothing, a string that
\* is no JWT, a JWT without exp, a JWT whose exp has been reached, or a JWT
\* whose exp lies ahead.
TokenState(tok, time) ==
    IF tok = None THEN "absent"
    ELSE IF tok = Malformed THEN "malformed"
    ELSE IF tok = JwtNoExp THEN "noexp"
    ELSE IF \E e \in 1..MaxExp : tok = Jwt(e) /\ time >= e THEN "expired"
    ELSE "unexpired"

\* A coroutine is called: the task remembers the token state it was called
\* in (held, rheld) for the length of the call.
Started(t, op) ==
    [tasks[t] EXCEPT !.op = op,
                     !.held = TokenState(accessToken, now),
                     !.rheld = (refreshToken # None)]

\* refresh() up to its await of session.request: the token is invalidated
\* and _request is entered with refresh=True, which keeps its guard false:
\* the refresh request leaves without a nested refresh.  (Were the guard
\* true, refresh() and _request would call each other without an await
\* until the interpreter raises RecursionError.)
StartRefresh(t, rec) ==
    /\ accessToken' = invalidated(accessToken)
    /\ tasks' = [tasks EXCEPT ![t] =
          IF needs_refresh(TRUE,
                           is_access_token_valid(invalidated(accessToken), now),
                           invalidated(accessToken), refreshToken)
          THEN [rec EXCEPT !.pc = "done", !.result = "RecursionError"]
          ELSE [rec EXCEPT !.pc = "refresh_wait",
                           !.reqs = Append(rec.reqs,
                               Request("post", "refresh",
                                       refresh_data(refreshToken),
                                       invalidated(accessToken)))]]
    /\ stale' = (stale \/ accessToken # None)
    /\ UNCHANGED <<username, password, refreshToken, now, delivered>>

\* The request of the operation itself, sent with the token tok held now.
OwnRequest(op, tok) ==
    IF op = "login"
    THEN Request("post", "login", login_data(username, password), tok)
    ELSE IF op = "logout"
    THEN Request("post", "logout", NoData, tok)
    ELSE Request("get", "units", NoData, tok)

\* _request(method, path, data) with refresh=False, up to its first await.
StartRequest(t, op) ==
    LET chk == is_access_token_valid(accessToken, now)
        rec == [Started(t, op) EXCEPT !.chk = chk]
    IN  IF chk = "raised"
        THEN /\ tasks' = [tasks EXCEPT ![t] =
                    [rec EXCEPT !.pc = "done", !.result = "DecodeError"]]
             /\ UNCHANGED <<username, password, accessToken, refreshToken, now,
                    delivered, stale>>
        ELSE IF needs_refresh(FALSE, chk, accessToken, refreshToken)
        THEN StartRefresh(t, rec)
        ELSE /\ tasks' = [tasks EXCEPT ![t] =
                    [rec EXCEPT !.pc = "request_wait",
                                !.reqs = <<OwnRequest(op, accessToken)>>]]
             /\ UNCHANGED <<username, password, accessToken, refreshToken, now,
                    delivered, stale>>

login(t) ==
    /\ tasks[t].pc = "idle"
    /\ StartRequest(t, "login")

logout(t) ==
    /\ tasks[t].pc = "idle"
    /\ StartRequest(t, "logout")

get_units(t) ==
    /\ tasks[t].pc = "idle"
    /\ StartRequest(t, "get_units")

refresh(t) ==
    /\ tasks[t].pc = "idle"
    /\ StartRefresh(t, [Started(t, "refresh") EXCEPT !.chk = "skipped"])

\* session.request raises a ClientError (connection refused, reset, ...):
\* the await sits outside the try of _request, the exception leaves the
\* coroutine as it is.
RequestRaises(t) ==
    /\ tasks[t].pc \in {"refresh_wait", "request_wait"}
    /\ tasks' = [tasks EXCEPT ![t] =
          [@ EXCEPT !.pc = "done", !.exc = "ClientError",
                    !.result = "ClientError"]]
    /\ UNCHANGED <<username, password, accessToken, refreshToken, now,
                    delivered, stale>>

\* (a retry: the failed request is sent once more instead of raising)
ResponseError_retry(t) ==
    /\ tasks[t].pc \in {"refresh_wait", "request_wait"}
    /\ Len(tasks[t].reqs) < 3
    /\ \E s \in Statuses :
          /\ status_outcome(s) # "ok"
          /\ tasks' = [tasks EXCEPT ![t] =
                [@ EXCEPT !.status = s,
                          !.reqs = Append(@, @[Len(@)])]]
    /\ UNCHANGED <<username, password, accessToken, refreshToken, now,
                    delivered, stale>>

\* (the failure of a pre-request refresh is swallowed and the request of the
\* operation is sent all the same)
ResponseError_swallow(t) ==
    /\ tasks[t].pc \in {"refresh_wait", "request_wait"}
    /\ \E s \in Statuses :
          /\ status_outcome(s) # "ok"
          /\ tasks' = [tasks EXCEPT ![t] =
                IF tasks[t].pc = "refresh_wait" /\ tasks[t].op # "refresh"
                THEN [@ EXCEPT !.pc = "request_wait", !.status = s,
                               !.reqs = Append(@, OwnRequest(tasks[t].op,
                                                             accessToken))]
                ELSE [@ EXCEPT !.pc = "done", !.status = s,
                               !.result = status_outcome(s)]]
    /\ UNCHANGED <<username, password, accessToken, refreshToken, now,
                    delivered, stale>>

\* session.request returns a response with an error status.
ResponseError(t) ==
    /\ tasks[t].pc \in {"refresh_wait", "request_wait"}
    /\ \E s \in Statuses :
          /\ status_outcome(s) # "ok"
          /\ tasks' = [tasks EXCEPT ![t] =
                [@ EXCEPT !.pc = "done", !.status = s,
                          !.result = status_outcome(s)]]
    /\ UNCHANGED <<username, password, accessToken, refreshToken, now,
                    delivered, stale>>

\* session.request returns a good response to the refresh request; refresh()
\* goes on to await resp.json().
RefreshResponse(t) ==
    /\ tasks[t].pc = "refresh_wait"
    /\ \E s \in Statuses, b \in TokenBodies :
          /\ status_outcome(s) = "ok"
          /\ tasks' = [tasks EXCEPT ![t] =
                [@ EXCEPT !.pc = "refresh_json", !.status = s, !.body = b]]
    /\ UNCHANGED <<username, password, accessToken, refreshToken, now,
                    delivered, stale>>

\* resp.json() returns in refresh(): both tokens are assigned; a refresh made
\* by _request returns into it and the request of the operation is sent.
RefreshJson(t) ==
    LET new == new_tokens(tasks[t].body, refreshToken) IN
    /\ tasks[t].pc = "refresh_json"
    /\ accessToken' = new.accessToken
    /\ refreshToken' = new.refreshToken
    /\ tasks' = [tasks EXCEPT ![t] =
          IF tasks[t].op = "refresh"
          THEN [@ EXCEPT !.pc = "done", !.result = "ok"]
          ELSE [@ EXCEPT !.pc = "request_wait",
                         !.reqs = Append(@, OwnRequest(tasks[t].op,
                                                       new.accessToken))]]
    /\ delivered' = tasks[t].body
    /\ stale' = FALSE
    /\ UNCHANGED <<username, password, now>>

\* session.request returns a good response to the request of the operation.
OwnResponse(t) ==
    /\ tasks[t].pc = "request_wait"
    /\ \E s \in Statuses :
          /\ status_outcome(s) = "ok"
          /\ \E b \in (IF tasks[t].op = "login" THEN TokenBodies ELSE {NoBody}),
                its \in (IF tasks[t].op = "get_units" THEN ItemLists ELSE {<<>>}) :
                tasks' = [tasks EXCEPT ![t] =
                   IF tasks[t].op = "logout"
                   THEN [@ EXCEPT !.pc = "done", !.status = s, !.result = "ok"]
                   ELSE [@ EXCEPT !.pc = "own_json", !.status = s, !.body = b,
                                  !.items = its]]
    /\ UNCHANGED <<username, password, accessToken, refreshToken, now,
                    delivered, stale>>

\* resp.json() returns in login(): both tokens are assigned.
LoginJson(t) ==
    LET new == new_tokens(tasks[t].body, refreshToken) IN
    /\ tasks[t].pc = "own_json"
    /\ tasks[t].op = "login"
    /\ accessToken' = new.accessToken
    /\ refreshToken' = new.refreshToken
    /\ tasks' = [tasks EXCEPT ![t] = [@ EXCEPT !.pc = "done", !.result = "ok"]]
    /\ delivered' = tasks[t].body
    /\ stale' = FALSE
    /\ UNCHANGED <<username, password, now>>

\* resp.json() returns in get_units(): the units are built, no field of the
\* account is assigned.
UnitsJson(t) ==
    /\ tasks[t].pc = "own_json"
    /\ tasks[t].op = "get_units"
    /\ tasks' = [tasks EXCEPT ![t] =
          [@ EXCEPT !.pc = "done", !.result = "ok",
                    !.units = units_of(tasks[t].items)]]
    /\ UNCHANGED <<username, password, accessToken, refreshToken, now,
                    delivered, stale>>

\* The caller takes the result (or the exception) of a finished coroutine.
Return(t) ==
    /\ tasks[t].pc = "done"
    /\ tasks' = [tasks EXCEPT ![t] = IdleTask]
    /\ UNCHANGED <<username, password, accessToken, refreshToken, now,
                    delivered, stale>>

\* time.time() advances.
Tick ==
    /\ now < MaxTime
    /\ now' = now + 1
    /\ UNCHANGED <<username, password, accessToken, refreshToken, tasks,
                   delivered, stale>>

Next ==
    \/ \E t \in Tasks : login(t)
    \/ \E t \in Tasks : logout(t)
    \/ \E t \in Tasks : refresh(t)
    \/ \E t \in Tasks : get_units(t)
    \/ \E t \in Tasks : RequestRaises(t)
    \/ \E t \in Tasks : ResponseError(t)
    \/ \E t \in Tasks : RefreshResponse(t)
    \/ \E t \in Tasks : RefreshJson(t)
    \/ \E t \in Tasks : OwnResponse(t)
    \/ \E t \in Tasks : LoginJson(t)
    \/ \E t \in Tasks : UnitsJson(t)
    \/ \E t \in Tasks : Return(t)
    \/ Tick

Spec == Init /\ [][Next]_vars

\* The account used by one caller that awaits each call before it makes the
\* next: a coroutine is called only while no other is running.
NoneRunning == \A u \in Tasks : tasks[u].pc \in {"idle", "done"}

NextSeq ==
    \/ \E t \in Tasks : NoneRunning /\ login(t)
    \/ \E t \in Tasks : NoneRunning /\ logout(t)
    \/ \E t \in Tasks : NoneRunning /\ refresh(t)
    \/ \E t \in Tasks : NoneRunning /\ get_units(t)
    \/ \E t \in Tasks : RequestRaises(t)
    \/ \E t \in Tasks : ResponseError(t)
    \/ \E t \in Tasks : RefreshResponse(t)
    \/ \E t \in Tasks : RefreshJson(t)
    \/ \E t \in Tasks : OwnResponse(t)
    \/ \E t \in Tasks : LoginJson(t)
    \/ \E t \in Tasks : UnitsJson(t)
    \/ \E t \in Tasks : Return(t)
    \/ Tick

SeqSpec == Init /\ [][NextSeq]_vars

TypeOK ==
    /\ accessToken \in AccessTokens \cup {None}
    /\ refreshToken \in RefreshTokens \cup {None}
    /\ now \in 0..MaxTime
    /\ \A t \in Tasks : Len(tasks[t].reqs) <= 2

\* ------------------------------------------------------------ properties
AuthOps == {"login", "logout", "get_units"}

IsRefreshRequest(r) == r.method = "post" /\ r.path = "refresh"

\* The number of POST refresh requests among reqs.
RefreshCount(reqs) == Cardinality({i \in 1..Len(reqs) : IsRefreshRequest(reqs[i])})

\* Task t takes a step.
Steps(t) == tasks'[t] # tasks[t]

\* Task t issues a request in this step.
Issues(t) == Len(tasks'[t].reqs) > Len(tasks[t].reqs)

\* C1: a login, logout or get_units call made while the access token is
\* absent, expired or without exp, and a refresh token is held, has issued
\* exactly one POST refresh request, and it is the first request of the call
\* (the request of the operation, if it is issued at all, comes after it).
C1_RefreshBeforeRequest ==
    \A t \in Tasks :
        (/\ tasks[t].op \in AuthOps
         /\ tasks[t].held \in {"absent", "expired", "noexp"}
         /\ tasks[t].rheld)
        => /\ Len(tasks[t].reqs) >= 1
           /\ IsRefreshRequest(tasks[t].reqs[1])
           /\ RefreshCount(tasks[t].reqs) = 1

C1_Witness ==
    \E t \in Tasks :
        /\ tasks[t].op = "logout"
        /\ tasks[t].held = "expired"
        /\ tasks[t].rheld
        /\ Len(tasks[t].reqs) = 2
        /\ tasks[t].reqs[2].path = "logout"
        /\ tasks[t].result = "ok"

\* C2: a login, logout or get_units call made while the access token is
\* present and its exp lies ahead issues no POST refresh request.
C2_NoRefreshWhenValid ==
    \A t \in Tasks :
        (tasks[t].op \in AuthOps /\ tasks[t].held = "unexpired")
        => /\ RefreshCount(tasks[t].reqs) = 0
           /\ Len(tasks[t].reqs) = 1

C2_Witness ==
    \E t \in Tasks :
        /\ tasks[t].op = "get_units"
        /\ tasks[t].held = "unexpired"
        /\ tasks[t].rheld
        /\ tasks[t].result = "ok"
        /\ RefreshCount(tasks[t].reqs) = 0

\* C3: a call whose request is answered with status 401 fails with
\* InvalidAuthCredentials, a call whose request is answered with another
\* error status (404, 500) fails with APIUnavailable, and an error status
\* gives no other result.
C3_StatusMapping ==
    \A t \in Tasks :
        /\ tasks[t].status = 401 =>
              tasks[t].pc = "done" /\ tasks[t].result = "InvalidAuthCredentials"
        /\ (tasks[t].status >= 400 /\ tasks[t].status # 401) =>
              tasks[t].pc = "done" /\ tasks[t].result = "APIUnavailable"

C3_Witness ==
    \E t, u \in Tasks :
        /\ tasks[t].op = "get_units"
        /\ Len(tasks[t].reqs) >= 1
        /\ tasks[t].reqs[Len(tasks[t].reqs)].path = "units"
        /\ tasks[t].status = 500
        /\ tasks[t].result = "APIUnavailable"
        /\ tasks[u].op = "refresh"
        /\ tasks[u].status = 401
        /\ tasks[u].result = "InvalidAuthCredentials"

\* C4: a call whose session.request raised a transport error fails with
\* APIUnavailable; the ClientError itself never reaches the caller.
C4_TransportErrorMapped ==
    \A t \in Tasks :
        tasks[t].exc = "ClientError" =>
            tasks[t].pc = "done" /\ tasks[t].result = "APIUnavailable"

\* C5: every finished login() call has issued a POST login request carrying
\* the username and the password of the account, whatever tokens the account
\* held at the call.  (Stated for the accounts built with credentials whose
\* access token is absent or decodes, and for the calls whose transport
\* raised nothing: the token that does not decode is the case of C13, the
\* transport error that of C4.)
C5_LoginAlwaysPosts ==
    \A t \in Tasks :
        (/\ tasks[t].op = "login"
         /\ tasks[t].pc = "done"
         /\ username # None
         /\ tasks[t].exc = "none"
         /\ tasks[t].held # "malformed")
        => \E i \in 1..Len(tasks[t].reqs) :
              /\ tasks[t].reqs[i].method = "post"
              /\ tasks[t].reqs[i].path = "login"
              /\ tasks[t].reqs[i].data = login_data(username, password)

\* C6: the step that completes a login() or a refresh() (resp.json() has
\* returned) leaves accessToken and refreshToken equal to the accessToken and
\* the refreshToken of the body of the response of that very call.
C6_TokensFromResponse ==
    [][\A t \in Tasks :
          (\/ tasks[t].pc = "refresh_json" /\ tasks'[t].pc # "refresh_json"
           \/ /\ tasks[t].pc = "own_json" /\ tasks[t].op = "login"
              /\ tasks'[t].pc = "done")
          => /\ accessToken' = tasks[t].body.accessToken
             /\ refreshToken' = tasks[t].body.refreshToken]_vars

C6_Witness ==
    \E t \in Tasks :
        /\ tasks[t].op = "refresh"
        /\ tasks[t].pc = "done"
        /\ tasks[t].result = "ok"
        /\ tasks[t].rheld
        /\ accessToken = tasks[t].body.accessToken
        /\ refreshToken = tasks[t].body.refreshToken
        /\ tasks[t].reqs[1].data # refresh_data(refreshToken)

\* C7: every POST refresh request is issued without an access-token header,
\* whatever token the account held when refresh() started and whatever the
\* other tasks do.
C7_RefreshWithoutHeader ==
    \A t \in Tasks : \A i \in 1..Len(tasks[t].reqs) :
        IsRefreshRequest(tasks[t].reqs[i]) => tasks[t].reqs[i].headers = {}

C7_Witness ==
    \E t \in Tasks :
        /\ tasks[t].op = "refresh"
        /\ tasks[t].held = "unexpired"
        /\ IsRefreshRequest(tasks[t].reqs[1])
        /\ tasks[t].reqs[1].headers = {}

\* C8: a request carries an access-token header exactly when accessToken is
\* present at the moment the request is issued, and the value of the header
\* is that accessToken.
C8_HeaderIffToken ==
    [][\A t \in Tasks :
          Issues(t) =>
             LET r == tasks'[t].reqs[Len(tasks'[t].reqs)] IN
             /\ (r.headers = {}) <=> (accessToken' = None)
             /\ accessToken' # None =>
                   r.headers = {<<"access-token", accessToken'>>}]_vars

C8_Witness ==
    \E t \in Tasks :
        /\ Len(tasks[t].reqs) = 2
        /\ tasks[t].reqs[1].headers = {}
        /\ tasks[t].reqs[2].headers # {}

\* C9: the validity check made by a call returns True exactly when the access
\* token is present, carries an exp claim and the time is strictly before
\* exp; it returns False when the token is absent, when it has no exp and
\* when the time has reached or passed exp.
C9_ValidityCheck ==
    [][\A t \in Tasks :
          (tasks[t].pc = "idle" /\ tasks'[t].op \in AuthOps) =>
             /\ tasks'[t].chk = "valid" <=>
                   \E e \in 1..MaxExp : accessToken = Jwt(e) /\ now < e
             /\ accessToken = None => tasks'[t].chk = "invalid"
             /\ accessToken = JwtNoExp => tasks'[t].chk = "invalid"
             /\ (\E e \in 1..MaxExp : accessToken = Jwt(e) /\ now >= e)
                   => tasks'[t].chk = "invalid"]_vars

\* a call that found the token unexpired, another that found the same token
\* at the very time of its exp
C9_Witness ==
    \E t, u \in Tasks :
        /\ tasks[t].chk = "valid"
        /\ tasks[u].chk = "invalid"
        /\ tasks[u].held = "expired"
        /\ tasks[u].pc = "request_wait"
        /\ \E e \in 1..MaxExp : accessToken = Jwt(e) /\ now = e

\* C10 as stated: a token field that is present when logout() is called is
\* present when that logout() call completes (stated for the calls whose
\* transport raised nothing, the transport error being the case of C4).
C10_LogoutKeepsTokens ==
    [][\A t \in Tasks :
          (/\ tasks[t].op = "logout"
           /\ tasks[t].pc # "done"
           /\ tasks'[t].pc = "done"
           /\ tasks'[t].exc = "none")
          => /\ tasks[t].held # "absent" => accessToken' # None
             /\ tasks[t].rheld => refreshToken' # None]_vars

\* C10 amended: the only steps of a logout() call that assign a token field
\* are those of its pre-request refresh: the start of the refresh sets
\* accessToken absent and leaves refreshToken, the end of a successful
\* refresh installs the pair of the refresh response; every other step of
\* the call leaves both fields as they are.
C10_LogoutAssignsOnlyByRefresh ==
    [][\A t \in Tasks :
          (Steps(t) /\ (tasks[t].op = "logout" \/ tasks'[t].op = "logout")) =>
             IF tasks'[t].pc = "refresh_wait"
             THEN accessToken' = None /\ refreshToken' = refreshToken
             ELSE IF tasks[t].pc = "refresh_json"
             THEN /\ accessToken' = tasks[t].body.accessToken
                  /\ refreshToken' = tasks[t].body.refreshToken
             ELSE accessToken' = accessToken /\ refreshToken' = refreshToken]_vars

\* a logout() that was called with both tokens held and has failed in its
\* pre-request refresh: the access token is gone, the refresh token is kept
C10_Witness ==
    \E t \in Tasks :
        /\ tasks[t].op = "logout"
        /\ tasks[t].pc = "done"
        /\ tasks[t].held = "expired"
        /\ tasks[t].rheld
        /\ tasks[t].result = "InvalidAuthCredentials"
        /\ accessToken = None
        /\ refreshToken # None
        /\ \A u \in Tasks \ {t} : tasks[u].pc = "idle"

\* C11: the two token fields are updated together: in every state the access
\* token is absent, or the access token and the refresh token held are the
\* pair the account was handed in one piece (by its constructor or by one
\* login / refresh response).
C11_TokensUpdatedTogether ==
    \/ accessToken = None
    \/ /\ accessToken = delivered.accessToken
       /\ refreshToken = delivered.refreshToken

\* a login and a refresh have run side by side, were handed different pairs,
\* and the account holds a token
C11_Witness ==
    \E t, u \in Tasks :
        /\ tasks[t].op = "login" /\ tasks[t].result = "ok"
        /\ tasks[u].op = "refresh" /\ tasks[u].result = "ok"
        /\ tasks[t].body # tasks[u].body
        /\ tasks[t].held = "absent"
        /\ accessToken # None
        /\ refreshToken = tasks[u].body.refreshToken

\* The call of task t has seen a request fail: an error status or an
\* exception of the transport.
Failed(t) == tasks[t].status >= 400 \/ tasks[t].exc # "none"

\* The requests of task t to the endpoint of its own operation.
OwnRequests(t) ==
    {i \in 1..Len(tasks[t].reqs) :
        tasks[t].reqs[i].path =
            (IF tasks[t].op = "get_units" THEN "units" ELSE tasks[t].op)}

\* C12: no retry: a call that has seen one of its requests fail is finished
\* with an error and never issues a request again, and a call issues at most
\* one request to the endpoint of its operation.
C12_NoRetry ==
    /\ [](\A t \in Tasks :
            /\ Failed(t) =>
                  /\ tasks[t].pc = "done"
                  /\ tasks[t].result \in
                        {"InvalidAuthCredentials", "APIUnavailable", "ClientError"}
            /\ Cardinality(OwnRequests(t)) <= 1)
    /\ [][\A t \in Tasks : tasks[t].pc = "done" => ~Issues(t)]_vars

\* a logout whose pre-request refresh went through and whose own request
\* failed: two requests, one to each endpoint
C12_Witness ==
    \E t \in Tasks :
        /\ tasks[t].op = "logout"
        /\ Len(tasks[t].reqs) = 2
        /\ tasks[t].status = 500
        /\ tasks[t].pc = "done"
        /\ tasks[t].result = "APIUnavailable"

\* C13: a login, logout or get_units call made while the account holds an
\* access token that does not decode fails with the DecodeError of the
\* validity check (the check does not answer "valid"), issues no request and
\* leaves both token fields as they were.
C13_MalformedRaises ==
    [][\A t \in Tasks :
          (/\ tasks[t].pc = "idle"
           /\ tasks'[t].op \in AuthOps
           /\ accessToken = Malformed)
          => /\ tasks'[t].chk = "raised"
             /\ tasks'[t].pc = "done"
             /\ tasks'[t].result = "DecodeError"
             /\ tasks'[t].reqs = <<>>
             /\ accessToken' = accessToken
             /\ refreshToken' = refreshToken]_vars

C13_Witness ==
    \E t \in Tasks :
        /\ tasks[t].op = "get_units"
        /\ tasks[t].held = "malformed"
        /\ tasks[t].rheld
        /\ tasks[t].pc = "done"
        /\ tasks[t].result = "DecodeError"
        /\ tasks[t].reqs = <<>>
        /\ accessToken = Malformed

\* The decimal digits of the natural number n.
RECURSIVE Decimal(_)
Decimal(n) == IF n < 10 THEN <<n>> ELSE Append(Decimal(n \div 10), n % 10)

\* C14: a get_units() call that succeeds returns one Unit per item of the
\* response, in the order of the items, with the serial number as the integer
\* its decimal string denotes and with name and notes None when the item has
\* no such key; and the only steps of a get_units() call that assign a token
\* field are those of its pre-request refresh.
C14_UnitsMapping ==
    /\ [](\A t \in Tasks :
            (tasks[t].op = "get_units" /\ tasks[t].result = "ok") =>
               /\ Len(tasks[t].units) = Len(tasks[t].items)
               /\ \A i \in 1..Len(tasks[t].items) :
                     LET item == tasks[t].items[i]
                         unit == tasks[t].units[i]
                     IN  /\ unit.serial_number \in Nat
                         /\ Decimal(unit.serial_number) = item.serialNumber
                         /\ unit.type = item.type
                         /\ unit.name = (IF "name" \in DOMAIN item
                                         THEN item.name ELSE None)
                         /\ unit.notes = (IF "notes" \in DOMAIN item
                                          THEN item.notes ELSE None))
    /\ [][\A t \in Tasks :
            (/\ Steps(t)
             /\ tasks[t].op = "get_units" \/ tasks'[t].op = "get_units"
             /\ tasks'[t].pc # "refresh_wait"
             /\ tasks[t].pc # "refresh_json")
            => accessToken' = accessToken /\ refreshToken' = refreshToken]_vars

\* two items, the one without name and notes second
C14_Witness ==
    \E t \in Tasks :
        /\ tasks[t].op = "get_units"
        /\ tasks[t].result = "ok"
        /\ tasks[t].items = <<ItemFull, ItemBare>>
        /\ Len(tasks[t].units) = 2
        /\ tasks[t].units[1].serial_number = 7
        /\ tasks[t].units[1].name = "pool"
        /\ tasks[t].units[2].serial_number = 123
        /\ tasks[t].units[2].name = None
        /\ tasks[t].units[2].notes = None

\* C15: once a refresh() has started, the access token the account held at
\* that moment is gone from the account (until a response installs a new
\* pair), and no request issued from then on, by any task, carries it: a
\* request carries no token or the token installed since.
C15_NoStaleToken ==
    /\ [](stale => accessToken = None)
    /\ [][\A t \in Tasks :
            Issues(t) =>
               LET r == tasks'[t].reqs[Len(tasks'[t].reqs)] IN
               \/ r.headers = {}
               \/ r.headers = {<<"access-token", accessToken'>>} /\ ~stale']_vars

\* a refresh() that was called with an unexpired token held is in flight,
\* and a get_units() called after it has sent its request without a token
C15_Witness ==
    \E t, u \in Tasks :
        /\ tasks[t].op = "refresh"
        /\ tasks[t].held = "unexpired"
        /\ tasks[t].pc = "refresh_wait"
        /\ tasks[u].op = "get_units"
        /\ tasks[u].held = "absent"
        /\ tasks[u].pc = "request_wait"
        /\ tasks[u].reqs[1].path = "units"
        /\ tasks[u].reqs[1].headers = {}
        /\ stale

\* C16: refresh is not mutually exclusive: a login, logout or get_units call
\* made while the refresh request of another task is in flight, the access
\* token is invalid and a refresh token is held is not held back; it sends a
\* POST refresh of its own with the refresh token held, so that two refresh
\* requests are in flight at once.
C16_RefreshNotExclusive ==
    [][\A t, u \in Tasks :
          (/\ t # u
           /\ tasks[u].pc = "refresh_wait"
           /\ tasks[t].pc = "idle"
           /\ tasks'[t].op \in AuthOps
           /\ TokenState(accessToken, now) \in {"absent", "expired", "noexp"}
           /\ refreshToken # None)
          => /\ tasks'[t].pc = "refresh_wait"
             /\ tasks'[u].pc = "refresh_wait"
             /\ Len(tasks'[t].reqs) = 1
             /\ IsRefreshRequest(tasks'[t].reqs[1])
             /\ tasks'[t].reqs[1].data = refresh_data(refreshToken)]_vars

\* two POST refresh requests in flight, both with the same refresh token
C16_Witness ==
    \E t, u \in Tasks :
        /\ t # u
        /\ tasks[t].op \in AuthOps /\ tasks[u].op \in AuthOps
        /\ tasks[t].pc = "refresh_wait" /\ tasks[u].pc = "refresh_wait"
        /\ IsRefreshRequest(tasks[t].reqs[1]) /\ IsRefreshRequest(tasks[u].reqs[1])
        /\ tasks[t].reqs[1].data = tasks[u].reqs[1].data
        /\ tasks[t].reqs[1].data = refresh_data(refreshToken)
        /\ refreshToken # None

\* How far a call is from its end: every answer of the transport brings it
\* closer.
Rank(pc) ==
    IF pc = "refresh_wait" THEN 4
    ELSE IF pc = "refresh_json" THEN 3
    ELSE IF pc = "request_wait" THEN 2
    ELSE IF pc = "own_json" THEN 1
    ELSE 0

\* C17: a refresh() call issues exactly one request, the POST refresh with
\* the refresh token held, and no nested refresh; no call issues more than
\* two requests, and every step of a running call (an answer of the
\* transport) brings it closer to its end.
C17_RefreshOneRequest ==
    /\ [](\A t \in Tasks :
            /\ (tasks[t].op = "refresh") =>
                  /\ Len(tasks[t].reqs) = 1
                  /\ IsRefreshRequest(tasks[t].reqs[1])
                  /\ tasks[t].result # "RecursionError"
            /\ Len(tasks[t].reqs) <= 2)
    /\ [][\A t \in Tasks :
            /\ (tasks[t].pc = "idle" /\ tasks'[t].op = "refresh") =>
                  tasks'[t].reqs[1].data = refresh_data(refreshToken)
            /\ (Steps(t) /\ tasks[t].pc \notin {"idle", "done"}) =>
                  Rank(tasks'[t].pc) < Rank(tasks[t].pc)]_vars

\* a refresh() called with a refresh token held and no valid access token
\* has ended after its one request
C17_Witness ==
    \E t \in Tasks :
        /\ tasks[t].op = "refresh"
        /\ tasks[t].held = "absent"
        /\ tasks[t].rheld
        /\ tasks[t].pc = "done"
        /\ tasks[t].result = "ok"
        /\ Len(tasks[t].reqs) = 1

\* C18: when the pre-request refresh of a login, logout or get_units call is
\* answered with an error status, the call ends there with the error of the
\* refresh request (InvalidAuthCredentials on 401, APIUnavailable otherwise)
\* and the request of the operation is never issued.
C18_FailedRefreshEndsCall ==
    [][\A t \in Tasks :
          /\ (/\ tasks[t].op \in AuthOps
              /\ tasks[t].pc = "refresh_wait"
              /\ Steps(t)
              /\ tasks'[t].status >= 400)
             => /\ tasks'[t].pc = "done"
                /\ tasks'[t].result =
                      (IF tasks'[t].status = 401
                       THEN "InvalidAuthCredentials" ELSE "APIUnavailable")
                /\ tasks'[t].reqs = tasks[t].reqs
          /\ (tasks[t].pc = "done" /\ tasks'[t].pc = "done") =>
                tasks'[t].reqs = tasks[t].reqs]_vars

C18_Witness ==
    \E t \in Tasks :
        /\ tasks[t].op = "login"
        /\ tasks[t].pc = "done"
        /\ tasks[t].status = 500
        /\ tasks[t].result = "APIUnavailable"
        /\ Len(tasks[t].reqs) = 1
        /\ IsRefreshRequest(tasks[t].reqs[1])

\* C19: with one call at a time, the step in which a refresh request fails
\* (error status or exception of the transport) leaves the access token
\* absent, not the token held before the refresh, and leaves the refresh
\* token the one the refresh request was sent with.
C19_FailedRefreshLeavesAbsent ==
    [][\A t \in Tasks :
          (tasks[t].pc = "refresh_wait" /\ tasks'[t].pc = "done") =>
             /\ accessToken' = None
             /\ refreshToken' = refreshToken
             /\ tasks[t].reqs[Len(tasks[t].reqs)].data
                   = refresh_data(refreshToken')]_vars

\* a refresh() called with an unexpired token and a refresh token held has
\* failed with 401
C19_Witness ==
    \E t \in Tasks :
        /\ tasks[t].op = "refresh"
        /\ tasks[t].held = "unexpired"
        /\ tasks[t].rheld
        /\ tasks[t].pc = "done"
        /\ tasks[t].status = 401
        /\ accessToken = None
        /\ refreshToken # None
        /\ delivered.accessToken # None

\* C20: the pair the account holds is the pair of the login / refresh
\* response that was processed last (the access token absent while a refresh
\* started since is unanswered), whatever the order of the requests; and a
\* token field changes only in the step that starts a refresh or in the step
\* that installs the pair of the response of the stepping call.
C20_LastResponseWins ==
    /\ [](/\ refreshToken = delivered.refreshToken
          /\ accessToken = (IF stale THEN None ELSE delivered.accessToken))
    /\ [][(accessToken' # accessToken \/ refreshToken' # refreshToken) =>
            \E t \in Tasks :
               /\ Steps(t)
               /\ \/ /\ tasks[t].pc = "idle"
                     /\ tasks'[t].pc \in {"refresh_wait", "done"}
                     /\ accessToken' = None
                     /\ refreshToken' = refreshToken
                  \/ /\ tasks[t].pc \in {"refresh_json", "own_json"}
                     /\ tasks[t].op \in {"login", "refresh"} \/ tasks[t].pc = "refresh_json"
                     /\ accessToken' = tasks[t].body.accessToken
                     /\ refreshToken' = tasks[t].body.refreshToken]_vars

\* a refresh() sent first and a login() sent after it have both succeeded
\* with different pairs; the response of the refresh was processed last
C20_Witness ==
    \E t, u \in Tasks :
        /\ tasks[t].op = "refresh" /\ tasks[t].held = "unexpired"
        /\ tasks[t].pc = "done" /\ tasks[t].result = "ok"
        /\ tasks[u].op = "login" /\ tasks[u].held = "absent"
        /\ tasks[u].pc = "done" /\ tasks[u].result = "ok"
        /\ tasks[t].body.refreshToken # tasks[u].body.refreshToken
        /\ accessToken = tasks[t].body.accessToken
        /\ refreshToken = tasks[t].body.refreshToken
====
